---- MODULE Spec2Model ----
(***************************************************************************)
(* Model of the SSD1680 e-paper driver                                     *)
(* (components/ssd1680_epaper/ssd1680_epaper.cpp).                         *)
(*                                                                         *)
(* The driver is single threaded.  One action models one straight-line     *)
(* stretch of the code or one iteration of a polling loop; pc is the       *)
(* position of the driver in update().                                     *)
(*                                                                         *)
(* Observation variables:                                                  *)
(*   ev     the calls made by the step just taken, in program order        *)
(*   trace  everything written to the bus and to the reset line since      *)
(*          construction, run-length encoded: the entry [k, v, n] stands   *)
(*          for n consecutive identical writes, where k = "cmd" is one bus *)
(*          transaction with the selector low carrying the bytes v,        *)
(*          k = "data" one bus transaction with the selector high carrying *)
(*          the bytes v, and k = "rst" one write of level v[1] to the      *)
(*          reset line.                                                    *)
(***************************************************************************)
EXTENDS Integers, Sequences, FiniteSets, TLC

VARIABLES pc, initialized_, reset_pin_, busy_pin_, buffer_, millis, start,
          ret, trace, ev, nUpdates, draws, nullDeref, busDown, failedAt

vars == <<pc, initialized_, reset_pin_, busy_pin_, buffer_, millis, start,
          ret, trace, ev, nUpdates, draws, nullDeref, busDown, failedAt>>

(***************************************************************************)
(* Bounds of the model.                                                    *)
(***************************************************************************)
MaxUpdates == 2
(* draw calls modelled in one update() *)
MaxDraws == 1
Margin == 1

(***************************************************************************)
(* Program constants.                                                      *)
(***************************************************************************)
WIDTH == 128
HEIGHT == 296
ALLSCREEN_BYTES == (WIDTH * HEIGHT) \div 8

WaitTimeout == 10000
WaitPoll == 10
WaitNoBusyDelay == 100
WaitIdleDelay == 10
InitTimeout == 2000
InitPoll == 10
RefreshTimeout == 5000
RefreshPoll == 100

nullptr == "nullptr"

(***************************************************************************)
(* Fixed-width arithmetic.                                                 *)
(***************************************************************************)
Pow2(k) == 2 ^ k
ToUint8(v) == v % 256
BitNot(v) == (-v) - 1
Bit(v, k) == (v \div Pow2(k)) % 2
BitAnd8(a, b) ==
  LET f[k \in 0..8] == IF k = 8 THEN 0
                       ELSE (Bit(a, k) * Bit(b, k)) * Pow2(k) + f[k + 1]
  IN f[0]
BitOr8(a, b) ==
  LET f[k \in 0..8] == IF k = 8 THEN 0
                       ELSE (IF Bit(a, k) + Bit(b, k) > 0 THEN Pow2(k) ELSE 0) + f[k + 1]
  IN f[0]

(***************************************************************************)
(* 32-bit unsigned values (millis(), start, their difference) are kept as  *)
(* <<high half, low half>>, each half a 16-bit number; the operations wrap *)
(* modulo 2^32 as uint32_t arithmetic does.                                *)
(***************************************************************************)
Half == 2 ^ 16
U32(hi, lo) == <<hi, lo>>
Add32(a, d) == <<(a[1] + ((a[2] + d) \div Half)) % Half, (a[2] + d) % Half>>
Sub32(a, b) == <<(a[1] - b[1] - (IF a[2] < b[2] THEN 1 ELSE 0)) % Half, (a[2] - b[2]) % Half>>
Gt32(a, limit) == a[1] > limit \div Half \/ (a[1] = limit \div Half /\ a[2] > limit % Half)

(***************************************************************************)
(* The millisecond clock.  Only the poll loops read it.  The reading at    *)
(* loop entry is an arbitrary 32-bit value; inside a loop delay(d)         *)
(* advances it by d; when the loop is left the reading is forgotten.       *)
(***************************************************************************)
ClockReadings == {U32(0, 0), U32(Half - 1, Half - 1000)}
NoReading == U32(0, 0)
Elapsed(now, since) == Sub32(now, since)
AfterDelay(now, d) == Add32(now, d)

(***************************************************************************)
(* Calls recorded in ev.                                                   *)
(***************************************************************************)
Cmd(c) == <<"command_", c>>
Data(d) == <<"data_", d>>
Block(bytes) == <<"send_data_", bytes>>
Delay(ms) == <<"delay", ms>>
RstWrite(level) == <<"reset_pin_.digital_write", level>>
DcWrite(level) == <<"dc_pin_.digital_write", level>>
BusyRead == <<"busy_pin_.digital_read", 0>>
ReadMillis == <<"millis", 0>>
FeedWdt == <<"feed_wdt", 0>>
GpioSet(pin, level) == <<"gpio_set_level", pin, level>>
GpioGet(pin) == <<"gpio_get_level", pin>>
DrawCall(x, y, on) == <<"draw_absolute_pixel_internal", x, y, on>>

(***************************************************************************)
(* command_, data_, send_data_: one scoped bus transaction each, with the  *)
(* selector line written first.                                            *)
(***************************************************************************)
command_(cmd) == [k |-> "cmd", v |-> <<cmd>>]
data_(d) == [k |-> "data", v |-> <<d>>]
send_data_(bytes) == [k |-> "data", v |-> bytes]

(***************************************************************************)
(* The same three functions as the calls they make, in program order: the  *)
(* write to the selector line, then enable(), the transfer and disable().  *)
(***************************************************************************)
Enable == <<"enable", 0>>
Disable == <<"disable", 0>>
WriteByte(b) == <<"write_byte", b>>
WriteArray(bytes) == <<"write_array", bytes>>

command_Body(cmd) == <<DcWrite(0), Enable, WriteByte(cmd), Disable>>
(* bug variant: the selector line written after the bus is enabled *)
data_Body_late(d) == <<Enable, DcWrite(1), WriteByte(d), Disable>>
data_Body(d) == <<DcWrite(1), Enable, WriteByte(d), Disable>>
send_data_Body(bytes) == <<DcWrite(1), Enable, WriteArray(bytes), Disable>>

(* the calls made by one call of a step *)
Body(c) ==
  IF c[1] = "command_" THEN command_Body(c[2])
  ELSE IF c[1] = "data_" THEN data_Body(c[2])
  ELSE IF c[1] = "send_data_" THEN send_data_Body(c[2])
  ELSE <<c>>

IsTraced(c) == c[1] \in {"command_", "data_", "send_data_", "reset_pin_.digital_write"}
WriteOf(c) ==
  IF c[1] = "command_" THEN command_(c[2])
  ELSE IF c[1] = "data_" THEN data_(c[2])
  ELSE IF c[1] = "send_data_" THEN send_data_(c[2])
  ELSE [k |-> "rst", v |-> <<c[2]>>]

(***************************************************************************)
(* Run-length encoding of the writes of one step and their addition to the *)
(* trace.                                                                  *)
(***************************************************************************)
Runs(s) ==
  LET S == {i \in 1..Len(s) : i = 1 \/ s[i] # s[i - 1]}
      StartK(k) == CHOOSE i \in S : Cardinality({j \in S : j < i}) = k - 1
      EndK(k) == IF k = Cardinality(S) THEN Len(s) ELSE StartK(k + 1) - 1
  IN [k \in 1..Cardinality(S) |->
        [k |-> s[StartK(k)].k, v |-> s[StartK(k)].v, n |-> EndK(k) - StartK(k) + 1]]

Join(t, r) ==
  IF t = <<>> THEN r
  ELSE IF r = <<>> THEN t
  ELSE IF t[Len(t)].k = r[1].k /\ t[Len(t)].v = r[1].v
       THEN SubSeq(t, 1, Len(t) - 1)
            \o <<[k |-> r[1].k, v |-> r[1].v, n |-> t[Len(t)].n + r[1].n]>>
            \o Tail(r)
       ELSE t \o r

Writes(calls) ==
  LET w == SelectSeq(calls, IsTraced)
  IN [i \in 1..Len(w) |-> WriteOf(w[i])]

Record(t, calls) == Join(t, Runs(Writes(calls)))

(***************************************************************************)
(* Number of bus transactions on a trace.                                  *)
(***************************************************************************)
RECURSIVE TxCount(_)
TxCount(t) ==
  IF t = <<>> THEN 0
  ELSE (IF t[1].k = "rst" THEN 0 ELSE t[1].n) + TxCount(Tail(t))

IsBusCall(c) == c[1] \in {"command_", "data_", "send_data_"}

(***************************************************************************)
(* A transient failure of the bus: the first transaction of the next step  *)
(* that uses the bus fails.  The driver has no way to see it (write_byte   *)
(* returns nothing), so it only marks the failing transaction.             *)
(***************************************************************************)
UsesBus(calls) == \E i \in 1..Len(calls) : IsBusCall(calls[i])

Fails(usesBus) ==
  /\ busDown' = IF usesBus THEN FALSE ELSE busDown
  /\ failedAt' = IF busDown /\ failedAt = 0 /\ usesBus THEN TxCount(trace) + 1 ELSE failedAt

(* a straight-line stretch making the calls `calls` *)
Do(calls) ==
  /\ trace' = Record(trace, calls)
  /\ ev' = calls
  /\ Fails(UsesBus(calls))

(* a loop of data_ calls: `calls` are its calls and `runs` the same calls   *)
(* as run-length encoded writes                                            *)
DoLoop(calls, runs) ==
  /\ trace' = Join(trace, runs)
  /\ ev' = calls
  /\ Fails(runs # <<>>)

(***************************************************************************)
(* Frame buffer.                                                           *)
(***************************************************************************)
get_width_internal == 128
get_height_internal == 296

PixelPos(x, y) == (y * (WIDTH \div 8)) + (x \div 8)
(* bug variant: the bits of a byte numbered from the least significant one *)
PixelBit_lsb(x) == Pow2(x % 8)
PixelBit(x) == 128 \div Pow2(x % 8)

draw_absolute_pixel_internal(buf, x, y, on) ==
  IF x < 0 \/ x >= get_width_internal \/ y < 0 \/ y >= get_height_internal
  THEN buf
  ELSE IF PixelPos(x, y) >= ALLSCREEN_BYTES
  THEN buf
  ELSE IF on
  THEN [buf EXCEPT ![PixelPos(x, y)] = ToUint8(BitOr8(@, PixelBit(x)))]
  ELSE [buf EXCEPT ![PixelPos(x, y)] = ToUint8(BitAnd8(@, ToUint8(BitNot(PixelBit(x)))))]

SetupFill == 255
FilledBuffer(b) == [i \in 0..(ALLSCREEN_BYTES - 1) |-> b]

(***************************************************************************)
(* Call sequences of the straight-line stretches.                          *)
(***************************************************************************)
IfBusy(calls) == IF busy_pin_ # nullptr THEN calls ELSE <<>>
IfReset(calls) == IF reset_pin_ # nullptr THEN calls ELSE <<>>

SetupCalls ==
  <<GpioSet(7, 1), Delay(100), DcWrite(0)>> \o IfReset(<<RstWrite(1)>>)

PinSwapTestCalls ==
  <<BusyRead, GpioGet(47), GpioSet(47, 1)>>

(* bug variant: the low level of the reset pulse released at once *)
InitResetCalls_nohold ==
  IfBusy(<<BusyRead>>)
  \o IfReset(<<RstWrite(1), Delay(10)>> \o IfBusy(<<BusyRead>>)
             \o <<RstWrite(0)>> \o IfBusy(<<BusyRead>>)
             \o <<RstWrite(1), Delay(10)>> \o IfBusy(<<BusyRead>>))
  \o <<Delay(100)>> \o IfBusy(<<BusyRead>>)
  \o <<Cmd(18), Delay(20)>> \o IfBusy(<<BusyRead>>)
  \o <<ReadMillis>>

InitResetCalls ==
  IfBusy(<<BusyRead>>)
  \o IfReset(<<RstWrite(1), Delay(10)>> \o IfBusy(<<BusyRead>>)
             \o <<RstWrite(0), Delay(10)>> \o IfBusy(<<BusyRead>>)
             \o <<RstWrite(1), Delay(10)>> \o IfBusy(<<BusyRead>>))
  \o <<Delay(100)>> \o IfBusy(<<BusyRead>>)
  \o <<Cmd(18), Delay(20)>> \o IfBusy(<<BusyRead>>)
  \o <<ReadMillis>>

(* bug variant: the end of the RAM Y window written high byte first *)
InitConfigCalls_bigendian ==
  <<Cmd(1), Data(39), Data(1), Data(0),
    Cmd(17), Data(3),
    Cmd(68), Data(0), Data(15),
    Cmd(69), Data(0), Data(0), Data(1), Data(39),
    Cmd(60), Data(5),
    Cmd(24), Data(128),
    Cmd(78), Data(0),
    Cmd(79), Data(0), Data(0)>>
  \o IfBusy(<<BusyRead>>)

InitConfigCalls ==
  <<Cmd(1), Data(39), Data(1), Data(0),
    Cmd(17), Data(3),
    Cmd(68), Data(0), Data(15),
    Cmd(69), Data(0), Data(0), Data(39), Data(1),
    Cmd(60), Data(5),
    Cmd(24), Data(128),
    Cmd(78), Data(0),
    Cmd(79), Data(0), Data(0)>>
  \o IfBusy(<<BusyRead>>)

(* bug variant: the levels of the pulse exchanged, the line left low *)
FrameResetCalls_inverted ==
  IfReset(<<RstWrite(1), Delay(10), RstWrite(0), Delay(10)>>)

FrameResetCalls ==
  IfReset(<<RstWrite(0), Delay(10), RstWrite(1), Delay(10)>>)

FrameSwResetCalls == <<Cmd(18), Delay(10)>>

FrameConfigCalls ==
  <<Cmd(1), Data(39), Data(1), Data(0),
    Cmd(17), Data(3),
    Cmd(68), Data(0), Data(15),
    Cmd(69), Data(0), Data(0), Data(39), Data(1),
    Cmd(78), Data(0),
    Cmd(79), Data(0), Data(0),
    Cmd(36)>>

(* bug variant: the buffer byte sent as it is *)
PrimaryByte_raw(b) == b
PrimaryByte(b) == ToUint8(BitNot(b))
PrimaryAt(i) == PrimaryByte(buffer_[i])

(* for (i = 0; i < ALLSCREEN_BYTES; i++) data_(~buffer_[i]) *)
PrimaryLoopCalls == [i \in 1..ALLSCREEN_BYTES |-> Data(PrimaryAt(i - 1))]

PrimaryLoopRuns ==
  LET S == {i \in 0..(ALLSCREEN_BYTES - 1) : i = 0 \/ PrimaryAt(i) # PrimaryAt(i - 1)}
      StartK(k) == CHOOSE i \in S : Cardinality({j \in S : j < i}) = k - 1
      EndK(k) == IF k = Cardinality(S) THEN ALLSCREEN_BYTES - 1 ELSE StartK(k + 1) - 1
  IN [k \in 1..Cardinality(S) |->
        [k |-> data_(PrimaryAt(StartK(k))).k, v |-> data_(PrimaryAt(StartK(k))).v,
         n |-> EndK(k) - StartK(k) + 1]]

(* bug variant: the RAM address counters not reset before the second plane *)
SecondaryCalls_nocounters ==
  <<Cmd(38)>>

SecondaryCalls ==
  <<Cmd(78), Data(0), Cmd(79), Data(0), Data(0), Cmd(38)>>

SecondaryByte == 0

(* for (i = 0; i < ALLSCREEN_BYTES; i++) data_(0x00) *)
SecondaryLoopCalls == [i \in 1..ALLSCREEN_BYTES |-> Data(SecondaryByte)]

SecondaryLoopRuns ==
  <<[k |-> data_(SecondaryByte).k, v |-> data_(SecondaryByte).v, n |-> ALLSCREEN_BYTES]>>

RefreshCalls == <<Cmd(34), Data(247), Cmd(32), ReadMillis>>

(***************************************************************************)
(* Initial state: the driver object as constructed, before setup().  The   *)
(* two optional lines are configured or not.                               *)
(***************************************************************************)
Init ==
  /\ pc = "constructed"
  /\ initialized_ \in BOOLEAN
  /\ reset_pin_ \in {nullptr, "RST"}
  /\ busy_pin_ \in {nullptr, "BUSY"}
  /\ buffer_ = <<>>
  /\ millis = NoReading
  /\ start = NoReading
  /\ ret = "none"
  /\ trace = <<>>
  /\ ev = <<>>
  /\ nUpdates = 0
  /\ draws = 0
  /\ nullDeref = FALSE
  /\ busDown = FALSE
  /\ failedAt = 0

(* bug variant: the loop sleeps without feeding the watchdog *)
PollCalls_nofeed(d) == <<BusyRead, ReadMillis, Delay(d)>>
(* one iteration of a polling loop that reads busy and has not timed out:  *)
(* the read of the line, the read of the clock, the sleep, the feed        *)
PollCalls(d) == <<BusyRead, ReadMillis, Delay(d), FeedWdt>>

(* the value setup() gives initialized_ *)
SetupInitialized == FALSE

(* bug variant: update() does not record that the chip is configured *)
InitializedAfterInit_unset == FALSE
(* the value update() gives initialized_ after init_display_() *)
InitializedAfterInit == TRUE

(* bug variant: the clock compared with the limit, not the time elapsed *)
TimedOut_absolute(now, since, limit) == Gt32(now, limit)
(* millis() - start > limit *)
TimedOut(now, since, limit) == Gt32(Elapsed(now, since), limit)

(* where the driver goes on after the timeout of wait_until_idle_: the     *)
(* return to the caller                                                    *)
AfterWaitTimeout(r) == r

(* bug variant: a timeout of the wait after the software reset of        *)
(* init_display_ ends the update                                           *)
AfterInitTimeout_abort == "idle"
(* where init_display_ goes on after the timeout of its wait: the break    *)
(* out of the loop, on to the configuration commands                       *)
AfterInitTimeout == "init_config"

setup ==
  /\ pc = "constructed"
  /\ Do(SetupCalls)
  /\ buffer_' = FilledBuffer(SetupFill)
  /\ initialized_' = SetupInitialized
  /\ pc' = "idle"
  /\ UNCHANGED <<reset_pin_, busy_pin_, millis, start, ret, nUpdates, draws, nullDeref>>

update ==
  /\ pc = "idle"
  /\ nUpdates < MaxUpdates
  /\ nUpdates' = nUpdates + 1
  /\ pc' = IF ~initialized_ THEN "first_update" ELSE "do_update"
  /\ ev' = <<>>
  /\ failedAt' = 0
  /\ draws' = 0
  /\ UNCHANGED <<initialized_, reset_pin_, busy_pin_, buffer_, millis, start, ret,
                 trace, nullDeref, busDown>>

(* Lines 346-373.  busy_pin_ is dereferenced without a null check: with no *)
(* busy line the behaviour is undefined, the call either faults or goes on.*)
first_update ==
  /\ pc = "first_update"
  /\ IF busy_pin_ = nullptr
     THEN /\ nullDeref' = TRUE
          /\ \/ pc' = "crashed" /\ Do(<<BusyRead>>)
             \/ pc' = "init_display" /\ Do(PinSwapTestCalls)
     ELSE /\ nullDeref' = nullDeref
          /\ pc' = "init_display"
          /\ Do(PinSwapTestCalls)
  /\ UNCHANGED <<initialized_, reset_pin_, busy_pin_, buffer_, millis, start, ret,
                 nUpdates, draws>>

init_display ==
  /\ pc = "init_display"
  /\ Do(InitResetCalls)
  /\ start' \in ClockReadings
  /\ millis' = start'
  /\ pc' = "init_wait"
  /\ UNCHANGED <<initialized_, reset_pin_, busy_pin_, buffer_, ret, nUpdates, draws,
                 nullDeref>>

init_wait ==
  /\ pc = "init_wait"
  /\ \/ /\ busy_pin_ = nullptr
        /\ Do(<<>>)
        /\ pc' = "init_config" /\ millis' = NoReading /\ start' = NoReading
     \/ /\ busy_pin_ # nullptr
        /\ \E busy \in BOOLEAN :
             IF ~busy
             THEN Do(<<BusyRead>>) /\ pc' = "init_config" /\ millis' = NoReading /\ start' = NoReading
             ELSE IF TimedOut(millis, start, InitTimeout)
             THEN /\ Do(<<BusyRead, ReadMillis>>)
                  /\ pc' = AfterInitTimeout /\ millis' = NoReading /\ start' = NoReading
             ELSE /\ Do(PollCalls(InitPoll))
                  /\ pc' = pc /\ millis' = AfterDelay(millis, InitPoll) /\ start' = start
  /\ UNCHANGED <<initialized_, reset_pin_, busy_pin_, buffer_, ret, nUpdates, draws,
                 nullDeref>>

init_config ==
  /\ pc = "init_config"
  /\ Do(InitConfigCalls)
  /\ initialized_' = InitializedAfterInit
  /\ pc' = "do_update"
  /\ UNCHANGED <<reset_pin_, busy_pin_, buffer_, millis, start, ret, nUpdates, draws,
                 nullDeref>>

(* do_update_() runs the drawing code of the application, which calls      *)
(* draw_absolute_pixel_internal any number of times.                       *)
DrawPixel(x, y, on) ==
  /\ pc = "do_update"
  /\ buffer_' = draw_absolute_pixel_internal(buffer_, x, y, on)
  /\ draws' = draws + 1
  /\ Do(<<DrawCall(x, y, on)>>)
  /\ UNCHANGED <<pc, initialized_, reset_pin_, busy_pin_, millis, start, ret, nUpdates,
                 nullDeref>>

DrawXs == {-1, 8}
DrawYs == {0}

do_update_draw ==
  /\ draws < MaxDraws
  /\ nUpdates > 0
  /\ \E x \in DrawXs, y \in DrawYs, on \in BOOLEAN : DrawPixel(x, y, on)

do_update_done ==
  /\ pc = "do_update"
  /\ nUpdates > 0
  /\ Do(<<>>)
  /\ pc' = "display_frame"
  /\ UNCHANGED <<initialized_, reset_pin_, busy_pin_, buffer_, millis, start, ret,
                 nUpdates, draws, nullDeref>>

display_frame ==
  /\ pc = "display_frame"
  /\ Do(FrameResetCalls)
  /\ ret' = "df_swreset"
  /\ pc' = "wui"
  /\ UNCHANGED <<initialized_, reset_pin_, busy_pin_, buffer_, millis, start, nUpdates,
                 draws, nullDeref>>

(* bug variant: the busy line polled without the check that it exists *)
wait_until_idle_unchecked ==
  /\ pc = "wui"
  /\ Do(<<ReadMillis, BusyRead>>)
  /\ start' \in ClockReadings
  /\ millis' = start'
  /\ pc' = "wui_loop" /\ ret' = ret
  /\ UNCHANGED <<initialized_, reset_pin_, busy_pin_, buffer_, nUpdates, draws, nullDeref>>

wait_until_idle_ ==
  /\ pc = "wui"
  /\ IF busy_pin_ = nullptr
     THEN /\ Do(<<Delay(WaitNoBusyDelay)>>)
          /\ pc' = ret /\ ret' = "none" /\ millis' = NoReading /\ start' = NoReading
     ELSE /\ Do(<<ReadMillis, BusyRead>>)
          /\ start' \in ClockReadings
          /\ millis' = start'
          /\ pc' = "wui_loop" /\ ret' = ret
  /\ UNCHANGED <<initialized_, reset_pin_, busy_pin_, buffer_, nUpdates, draws, nullDeref>>

wait_until_idle_loop ==
  /\ pc = "wui_loop"
  /\ \E busy \in BOOLEAN :
       IF ~busy
       THEN /\ Do(<<BusyRead, ReadMillis, Delay(WaitIdleDelay)>>)
            /\ pc' = ret /\ ret' = "none" /\ millis' = NoReading /\ start' = NoReading
       ELSE IF TimedOut(millis, start, WaitTimeout)
       THEN /\ Do(<<BusyRead, ReadMillis>>)
            /\ pc' = AfterWaitTimeout(ret) /\ ret' = "none" /\ millis' = NoReading /\ start' = NoReading
       ELSE /\ Do(PollCalls(WaitPoll))
            /\ pc' = pc /\ ret' = ret /\ millis' = AfterDelay(millis, WaitPoll)
            /\ start' = start
  /\ UNCHANGED <<initialized_, reset_pin_, busy_pin_, buffer_, nUpdates, draws, nullDeref>>

df_swreset ==
  /\ pc = "df_swreset"
  /\ Do(FrameSwResetCalls)
  /\ ret' = "df_config"
  /\ pc' = "wui"
  /\ UNCHANGED <<initialized_, reset_pin_, busy_pin_, buffer_, millis, start, nUpdates,
                 draws, nullDeref>>

df_config ==
  /\ pc = "df_config"
  /\ Do(FrameConfigCalls)
  /\ pc' = "df_primary"
  /\ UNCHANGED <<initialized_, reset_pin_, busy_pin_, buffer_, millis, start, ret,
                 nUpdates, draws, nullDeref>>

(* bug variant: the buffer inverted in place before it is sent *)
df_primary_inplace ==
  /\ pc = "df_primary"
  /\ DoLoop(PrimaryLoopCalls, PrimaryLoopRuns)
  /\ buffer_' = [i \in 0..(ALLSCREEN_BYTES - 1) |-> PrimaryAt(i)]
  /\ pc' = "df_secondary"
  /\ UNCHANGED <<initialized_, reset_pin_, busy_pin_, millis, start, ret,
                 nUpdates, draws, nullDeref>>

df_primary ==
  /\ pc = "df_primary"
  /\ DoLoop(PrimaryLoopCalls, PrimaryLoopRuns)
  /\ pc' = "df_secondary"
  /\ UNCHANGED <<initialized_, reset_pin_, busy_pin_, buffer_, millis, start, ret,
                 nUpdates, draws, nullDeref>>

df_secondary ==
  /\ pc = "df_secondary"
  /\ Do(SecondaryCalls)
  /\ pc' = "df_secondary_loop"
  /\ UNCHANGED <<initialized_, reset_pin_, busy_pin_, buffer_, millis, start, ret,
                 nUpdates, draws, nullDeref>>

df_secondary_loop ==
  /\ pc = "df_secondary_loop"
  /\ DoLoop(SecondaryLoopCalls, SecondaryLoopRuns)
  /\ ret' = "full_update"
  /\ pc' = "wui"
  /\ UNCHANGED <<initialized_, reset_pin_, busy_pin_, buffer_, millis, start, nUpdates,
                 draws, nullDeref>>

full_update_ ==
  /\ pc = "full_update"
  /\ Do(RefreshCalls)
  /\ start' \in ClockReadings
  /\ millis' = start'
  /\ pc' = "fu_wait"
  /\ UNCHANGED <<initialized_, reset_pin_, busy_pin_, buffer_, ret, nUpdates, draws,
                 nullDeref>>

(* Lines 253-265 and the return from display_frame_ and update().          *)
full_update_wait ==
  /\ pc = "fu_wait"
  /\ \/ /\ busy_pin_ = nullptr
        /\ Do(<<ReadMillis>>)
        /\ pc' = "idle" /\ millis' = NoReading /\ start' = NoReading
     \/ /\ busy_pin_ # nullptr
        /\ \E busy \in BOOLEAN :
             IF ~busy
             THEN Do(<<BusyRead, ReadMillis>>) /\ pc' = "idle" /\ millis' = NoReading /\ start' = NoReading
             ELSE IF TimedOut(millis, start, RefreshTimeout)
             THEN /\ Do(<<BusyRead, ReadMillis, ReadMillis>>)
                  /\ pc' = "idle" /\ millis' = NoReading /\ start' = NoReading
             ELSE /\ Do(PollCalls(RefreshPoll))
                  /\ pc' = pc /\ millis' = AfterDelay(millis, RefreshPoll) /\ start' = start
  /\ UNCHANGED <<initialized_, reset_pin_, busy_pin_, buffer_, ret, nUpdates, draws,
                 nullDeref>>

Driver ==
  \/ first_update
  \/ init_display
  \/ init_wait
  \/ init_config
  \/ do_update_done
  \/ display_frame
  \/ wait_until_idle_
  \/ wait_until_idle_loop
  \/ df_swreset
  \/ df_config
  \/ df_primary
  \/ df_secondary
  \/ df_secondary_loop
  \/ full_update_
  \/ full_update_wait

Next ==
  \/ setup
  \/ update
  \/ do_update_draw
  \/ Driver

Spec == Init /\ [][Next]_vars

(* The driver runs on one execution context and every step it reaches is   *)
(* executed: weak fairness of the driver's steps.  The control flow of     *)
(* update() never reads the frame buffer, so the drawing code is left out  *)
(* here and the buffer stays as setup() filled it.                         *)
NextDriver ==
  \/ setup
  \/ update
  \/ Driver

FairSpec == Init /\ [][NextDriver]_vars /\ WF_vars(Driver)

(***************************************************************************)
(* A transient bus failure may strike while the driver is about to         *)
(* configure the chip or to write its RAM.                                 *)
(***************************************************************************)
FaultPoints == {"init_display", "init_config", "df_swreset", "df_config",
                "df_primary", "df_secondary", "df_secondary_loop"}

BusFault ==
  /\ pc \in FaultPoints
  /\ ~busDown
  /\ failedAt = 0
  /\ busDown' = TRUE
  /\ UNCHANGED <<pc, initialized_, reset_pin_, busy_pin_, buffer_, millis, start, ret,
                 trace, ev, nUpdates, draws, nullDeref, failedAt>>

NextFault ==
  \/ Next
  \/ BusFault

SpecFault == Init /\ [][NextFault]_vars

(***************************************************************************)
(* draw_absolute_pixel_internal as a function of its arguments: one call   *)
(* with every coordinate of the panel and a margin around it, on a buffer  *)
(* the drawing code can have produced in which every second pixel is set   *)
(* (bytes 0xAA and 0x55 alternating), so that each of set and clear meets  *)
(* a set bit and a cleared bit in every bit position.                      *)
(***************************************************************************)
InitDraw ==
  /\ pc = "do_update"
  /\ initialized_ = TRUE
  /\ reset_pin_ = "RST"
  /\ busy_pin_ = "BUSY"
  /\ buffer_ = [i \in 0..(ALLSCREEN_BYTES - 1) |-> IF i % 2 = 0 THEN 170 ELSE 85]
  /\ millis = NoReading
  /\ start = NoReading
  /\ ret = "none"
  /\ trace = <<>>
  /\ ev = <<>>
  /\ nUpdates = 1
  /\ draws = 0
  /\ nullDeref = FALSE
  /\ busDown = FALSE
  /\ failedAt = 0

draw_pixel ==
  /\ draws = 0
  /\ \E x \in (-Margin)..(WIDTH - 1 + Margin), y \in (-Margin)..(HEIGHT - 1 + Margin),
        on \in BOOLEAN : DrawPixel(x, y, on)

NextDraw == draw_pixel

SpecDraw == InitDraw /\ [][NextDraw]_vars

(***************************************************************************)
(* Reading the trace.                                                      *)
(***************************************************************************)
(* number of commands with opcode op on the trace *)
CmdCount(t, op) ==
  LET f[i \in 0..Len(t)] ==
        IF i = 0 THEN 0
        ELSE f[i - 1] + (IF t[i].k = "cmd" /\ t[i].v = <<op>> THEN t[i].n ELSE 0)
  IN f[Len(t)]

(* the opcodes on the trace, in order *)
RECURSIVE Ops(_)
Ops(t) ==
  IF t = <<>> THEN <<>>
  ELSE (IF t[1].k = "cmd" THEN [i \in 1..t[1].n |-> t[1].v[1]] ELSE <<>>) \o Ops(Tail(t))

(* the bytes of n identical transactions carrying v *)
Bytes(v, n) == [i \in 1..(n * Len(v)) |-> v[((i - 1) % Len(v)) + 1]]

(* the trace as (opcode, payload) pairs; tx is the number of bus            *)
(* transactions that carried the payload                                    *)
RECURSIVE PairsAcc(_, _)
PairsAcc(t, acc) ==
  IF t = <<>> THEN acc
  ELSE IF t[1].k = "rst" THEN PairsAcc(Tail(t), acc)
  ELSE IF t[1].k = "cmd"
  THEN PairsAcc(Tail(t),
                acc \o [i \in 1..t[1].n |-> [op |-> t[1].v[1], payload |-> <<>>, tx |-> 0]])
  ELSE IF acc = <<>>
  THEN PairsAcc(Tail(t), <<[op |-> -1, payload |-> Bytes(t[1].v, t[1].n), tx |-> t[1].n]>>)
  ELSE PairsAcc(Tail(t),
                [acc EXCEPT ![Len(acc)] =
                   [op |-> @.op, payload |-> @.payload \o Bytes(t[1].v, t[1].n),
                    tx |-> @.tx + t[1].n]])

Pairs(t) == PairsAcc(t, <<>>)

(* positions of the commands with opcode op on the trace *)
CmdAt(t, op) == {i \in 1..Len(t) : t[i].k = "cmd" /\ t[i].v = <<op>>}

Min(S) == CHOOSE a \in S : \A b \in S : a <= b

(* the part of the trace before position i *)
Before(t, i) == SubSeq(t, 1, i - 1)

(* the levels written to the reset line, in order *)
RECURSIVE Levels(_)
Levels(t) ==
  IF t = <<>> THEN <<>>
  ELSE (IF t[1].k = "rst" THEN [i \in 1..t[1].n |-> t[1].v[1]] ELSE <<>>) \o Levels(Tail(t))

Returned == pc = "idle" /\ nUpdates >= 1

(***************************************************************************)
(* C1: For any number n >= 1 of completed update() calls after setup(),    *)
(* the one-time configuration (the commands 0x3C and 0x18) has been        *)
(* emitted exactly once, after the first software reset and before the     *)
(* second one, which opens the first write-and-refresh phase; every one of *)
(* the n calls has written both planes and activated the update; and from  *)
(* setup() on the flag initialized_ is true exactly when the configuration *)
(* has been emitted, so it is false after setup(), true after the first    *)
(* update() has configured the chip, and never false again.                *)
(***************************************************************************)
C1_ConfiguredOnce ==
  pc # "constructed" =>
    /\ initialized_ <=> (CmdCount(trace, 60) >= 1)
    /\ CmdCount(trace, 60) <= 1
    /\ CmdCount(trace, 24) = CmdCount(trace, 60)
    /\ Returned =>
         /\ CmdCount(trace, 60) = 1
         /\ CmdCount(trace, 18) = nUpdates + 1
         /\ \A i \in CmdAt(trace, 60) \cup CmdAt(trace, 24) :
              /\ \E j \in CmdAt(trace, 18) : j < i
              /\ Cardinality({j \in CmdAt(trace, 18) : j < i}) = 1
              /\ \A j \in CmdAt(trace, 36) \cup CmdAt(trace, 38) \cup CmdAt(trace, 32) : i < j
         /\ CmdCount(trace, 36) = nUpdates
         /\ CmdCount(trace, 38) = nUpdates
         /\ CmdCount(trace, 34) = nUpdates
         /\ CmdCount(trace, 32) = nUpdates

C1_Witness == Returned /\ nUpdates >= 2 /\ initialized_ /\ CmdCount(trace, 32) = nUpdates

(***************************************************************************)
(* C2: When update() returns, the two planes of every update are on the    *)
(* trace in the order 0x24, 0x26; every 0x24 carries exactly               *)
(* width*height/8 = 4736 payload bytes and every 0x26 exactly 4736 bytes,  *)
(* all 0x00; and the i-th payload byte of the 0x24 of the call that just   *)
(* returned is the bitwise complement of frame-buffer byte i.              *)
(***************************************************************************)
PlanePairs(t) == SelectSeq(Pairs(t), LAMBDA p : p.op \in {36, 38})

IsComplement(a, b) == \A k \in 0..7 : Bit(a, k) = 1 - Bit(b, k)

C2_Planes ==
  Returned =>
    LET pl == PlanePairs(trace)
    IN /\ Len(pl) = 2 * nUpdates
       /\ \A j \in 1..Len(pl) :
            /\ pl[j].op = (IF j % 2 = 1 THEN 36 ELSE 38)
            /\ Len(pl[j].payload) = 4736
            /\ Len(pl[j].payload) = (WIDTH * HEIGHT) \div 8
            /\ pl[j].op = 38 => \A i \in 1..4736 : pl[j].payload[i] = 0
       /\ \A i \in 1..4736 :
            IsComplement(pl[Len(pl) - 1].payload[i], buffer_[i - 1])

C2_Witness == Returned /\ nUpdates >= 2 /\ buffer_[0] = 255 /\ buffer_[1] = 127

(***************************************************************************)
(* C3: Once the chip is configured, and however many update() calls        *)
(* follow, the bus traffic before the second software reset is exactly the *)
(* list software reset 0x12 [], driver output control 0x01 [0x27,0x01,0x00]*)
(* (height-1 little-endian and the mode byte), data entry mode 0x11 [0x03],*)
(* RAM X window 0x44 [0x00,0x0F], RAM Y window 0x45 [0x00,0x00,0x27,0x01], *)
(* border waveform 0x3C [0x05], temperature sensor 0x18 [0x80], RAM X      *)
(* counter 0x4E [0x00], RAM Y counter 0x4F [0x00,0x00], with no other bus  *)
(* byte in between; with a reset line the levels written to it before the  *)
(* software reset are the one of setup() and the reset pulse 1, 0, 1.      *)
(***************************************************************************)
ConfigList ==
  << <<18, <<>> >>,
     <<1, <<39, 1, 0>> >>,
     <<17, <<3>> >>,
     <<68, <<0, 15>> >>,
     <<69, <<0, 0, 39, 1>> >>,
     <<60, <<5>> >>,
     <<24, <<128>> >>,
     <<78, <<0>> >>,
     <<79, <<0, 0>> >> >>

ConfigPart(t) ==
  LET r == CmdAt(t, 18)
  IN IF Cardinality(r) >= 2 THEN Before(t, Min(r \ {Min(r)})) ELSE t

C3_ConfigSequence ==
  (pc # "constructed" /\ initialized_) =>
    LET p == Pairs(ConfigPart(trace))
    IN /\ [i \in 1..Len(p) |-> <<p[i].op, p[i].payload>>] = ConfigList
       /\ ConfigList[2][2][1] = (HEIGHT - 1) % 256
       /\ ConfigList[2][2][2] = (HEIGHT - 1) \div 256
       /\ CmdAt(trace, 18) # {}
       /\ Levels(Before(trace, Min(CmdAt(trace, 18))))
            = (IF reset_pin_ # nullptr THEN <<1, 1, 0, 1>> ELSE <<>>)

C3_Witness ==
  Returned /\ nUpdates >= 2 /\ initialized_ /\ reset_pin_ # nullptr
  /\ Cardinality(CmdAt(trace, 18)) >= 3

(***************************************************************************)
(* C4: With a busy line configured, whatever the busy line reads at each   *)
(* poll, every update() call that has started returns; and when it         *)
(* returns the last thirteen commands on the bus are the complete          *)
(* write-and-refresh sequence, ending with the activate-update command     *)
(* 0x20 as the last bus transaction: no timeout at a wait point skips or   *)
(* aborts a later step.                                                    *)
(***************************************************************************)
PhaseOps == <<18, 1, 17, 68, 69, 78, 79, 36, 78, 79, 38, 34, 32>>

C4_Complete ==
  (busy_pin_ # nullptr /\ Returned) =>
    LET o == Ops(trace)
    IN /\ Len(o) >= Len(PhaseOps)
       /\ SubSeq(o, Len(o) - Len(PhaseOps) + 1, Len(o)) = PhaseOps
       /\ trace[Len(trace)].k = "cmd"
       /\ trace[Len(trace)].v = <<32>>

C4_UpdateTerminates ==
  /\ [] C4_Complete
  /\ (busy_pin_ # nullptr /\ pc \notin {"constructed", "idle"}) ~> (pc = "idle")

C4_Witness ==
  /\ busy_pin_ # nullptr
  /\ pc = "full_update"
  /\ ev = <<BusyRead, ReadMillis>>

(***************************************************************************)
(* C5: The polling loop of wait_until_idle_ is always left.  It is         *)
(* repeated only after a poll that read busy with at most 10000 ms         *)
(* elapsed, and each repetition sleeps 10 ms, so with a line that reads    *)
(* busy at every poll it is left at the first poll after more than         *)
(* 10000 ms; it is left for the caller's next step, with no other effect;  *)
(* it is left on the timeout only after more than 10000 ms, and on a poll  *)
(* that reads idle at once, whatever time has elapsed.                     *)
(***************************************************************************)
C5_LoopStep ==
  pc = "wui_loop" =>
    \/ /\ pc' = "wui_loop"
       /\ ~ Gt32(Elapsed(millis, start), 10000)
       /\ millis' = Add32(millis, 10)
       /\ ev' = <<BusyRead, ReadMillis, Delay(10), FeedWdt>>
    \/ /\ pc' = ret
       /\ pc' \in {"df_swreset", "df_config", "full_update"}
       /\ ev' = <<BusyRead, ReadMillis>>
       /\ Gt32(Elapsed(millis, start), 10000)
    \/ /\ pc' = ret
       /\ pc' \in {"df_swreset", "df_config", "full_update"}
       /\ ev' = <<BusyRead, ReadMillis, Delay(10)>>

C5_WaitTerminates ==
  /\ (pc = "wui_loop") ~> (pc # "wui_loop")
  /\ [] (pc = "wui_loop" => ~ Gt32(Elapsed(millis, start), 10000 + 10))
  /\ [][C5_LoopStep]_vars

C5_Witness ==
  /\ pc = "wui_loop"
  /\ Gt32(Elapsed(millis, start), 10000)
  /\ start = U32(Half - 1, Half - 1000)

(***************************************************************************)
(* C6: With no busy line the polling loop of wait_until_idle_ is never     *)
(* entered, and when wait_until_idle_ has returned to its caller the only  *)
(* call it has made is one delay of 100 ms: it has read no pin.            *)
(***************************************************************************)
WaitReturns == {"df_swreset", "df_config", "full_update"}

C6_NoBusyLine ==
  busy_pin_ = nullptr =>
    /\ pc # "wui_loop"
    /\ pc \in WaitReturns => ev = <<Delay(100)>>

C6_Witness == busy_pin_ = nullptr /\ pc = "full_update" /\ ev = <<Delay(100)>>

(***************************************************************************)
(* C7: With the reset line or the busy line absent, no call is ever made   *)
(* on the absent line and update() never faults.                           *)
(***************************************************************************)
C7_DegradedMode ==
  (reset_pin_ = nullptr \/ busy_pin_ = nullptr) =>
    /\ pc # "crashed"
    /\ \A i \in 1..Len(ev) :
         /\ ev[i][1] = "busy_pin_.digital_read" => busy_pin_ # nullptr
         /\ ev[i][1] = "reset_pin_.digital_write" => reset_pin_ # nullptr

(***************************************************************************)
(* C8: After a bus transaction of an update() has failed, no later bus     *)
(* transaction is made in that update().                                   *)
(***************************************************************************)
C8_AbortOnBusFailure ==
  failedAt > 0 => TxCount(trace) = failedAt

(***************************************************************************)
(* C9: When update() returns, the payload of every write-RAM command       *)
(* (0x24, 0x26) on the trace is one bus transaction carrying all 4736      *)
(* bytes.                                                                  *)
(***************************************************************************)
C9_SingleTransaction ==
  Returned =>
    \A i \in CmdAt(trace, 36) \cup CmdAt(trace, 38) :
      /\ i < Len(trace)
      /\ trace[i + 1].k = "data"
      /\ trace[i + 1].n = 1
      /\ Len(trace[i + 1].v) = 4736
      /\ (i + 1 < Len(trace) => trace[i + 2].k # "data")

(***************************************************************************)
(* C10: A call draw_absolute_pixel_internal(x, y, color) with              *)
(* 0 <= x < 128 and 0 <= y < 296 leaves every byte other than              *)
(* y*16 + x/8 as it was, and in that byte sets the bit with mask           *)
(* 0x80 >> (x mod 8) to 1 when the colour is on and to 0 otherwise and     *)
(* leaves the other seven bits as they were; with any other (x, y) it      *)
(* leaves the whole buffer as it was.                                      *)
(***************************************************************************)
MaskBit(b, mask) == (b \div mask) % 2

C10_DrawStep ==
  (ev' # <<>> /\ ev'[1][1] = "draw_absolute_pixel_internal") =>
    LET x == ev'[1][2]
        y == ev'[1][3]
        on == ev'[1][4]
        idx == y * 16 + x \div 8
        mask == 128 \div (2 ^ (x % 8))
    IN IF 0 <= x /\ x < 128 /\ 0 <= y /\ y < 296
       THEN /\ buffer_' = [buffer_ EXCEPT ![idx] = buffer_'[idx]]
            /\ \A k \in 0..7 :
                 MaskBit(buffer_'[idx], 2 ^ k)
                   = IF 2 ^ k = mask THEN (IF on THEN 1 ELSE 0)
                     ELSE MaskBit(buffer_[idx], 2 ^ k)
       ELSE buffer_' = buffer_

C10_DrawPixel == [][C10_DrawStep]_vars

C10_Witness ==
  /\ ev = <<DrawCall(14, 295, TRUE)>>
  /\ buffer_[4721] = 87

(***************************************************************************)
(* Reading the calls of a step.                                            *)
(***************************************************************************)
IsRstWrite(c) == c[1] = "reset_pin_.digital_write"
IsDelay(c) == c[1] = "delay"

(* positions of the calls of a step that satisfy Test *)
RstAt(calls) == {i \in 1..Len(calls) : IsRstWrite(calls[i])}
BusAt(calls) == {i \in 1..Len(calls) : IsBusCall(calls[i])}
DelayAt(calls) == {i \in 1..Len(calls) : IsDelay(calls[i])}
CallAt(calls, c) == {i \in 1..Len(calls) : calls[i] = c}

(* the levels written to the reset line by the calls, in order *)
RstLevels(calls) ==
  LET w == SelectSeq(calls, IsRstWrite)
  IN [i \in 1..Len(w) |-> w[i][2]]

(* the time slept from position i + 1 to position j - 1 *)
Slept(calls, i, j) ==
  LET f[k \in i..j] ==
        IF k = i THEN 0
        ELSE f[k - 1] + (IF k < j /\ IsDelay(calls[k]) THEN calls[k][2] ELSE 0)
  IN f[j]

(* the time for which the level written at position i is held: the time    *)
(* slept before the next write to the reset line or to the bus, or before  *)
(* the end of the step                                                     *)
Hold(calls, i) ==
  LET later == {j \in RstAt(calls) \cup BusAt(calls) : j > i}
  IN Slept(calls, i, IF later = {} THEN Len(calls) + 1 ELSE Min(later))

(***************************************************************************)
(* C11: Immediately after setup() the frame buffer has width*height/8 =    *)
(* 4736 bytes and every one of them is 0x00, the all-background value.     *)
(***************************************************************************)
C11_BackgroundAfterSetup ==
  (pc = "idle" /\ nUpdates = 0) =>
    /\ DOMAIN buffer_ = 0..4735
    /\ \A i \in DOMAIN buffer_ : buffer_[i] = 0

(***************************************************************************)
(* C12: With a reset line, when init_display_ has sent the software reset  *)
(* 0x12, the levels it has written to the reset line are exactly high,     *)
(* low, high, in that order; all three writes precede the 0x12; and each   *)
(* level is held, by sleeping, for at least 10 ms before the next write to *)
(* the reset line or the next bus transfer.                                *)
(***************************************************************************)
C12_InitResetPulse ==
  (pc = "init_wait" /\ CallAt(ev, Cmd(18)) # {} /\ reset_pin_ # nullptr) =>
    /\ RstLevels(ev) = <<1, 0, 1>>
    /\ \A i \in RstAt(ev) :
         /\ \A j \in CallAt(ev, Cmd(18)) : i < j
         /\ \A j \in BusAt(ev) : i < j
         /\ Hold(ev, i) >= 10

C12_Witness ==
  /\ pc = "init_wait"
  /\ reset_pin_ # nullptr
  /\ busy_pin_ # nullptr
  /\ CallAt(ev, Cmd(18)) # {}
  /\ Cardinality(RstAt(ev)) = 3

(***************************************************************************)
(* C13: With a reset line, when display_frame_ reaches its first busy wait *)
(* it has written the levels high, low, high to the reset line, in that    *)
(* order, has held each of them for 10 ms, and has made no bus transfer    *)
(* and no read of the busy line.                                           *)
(***************************************************************************)
C13_FrameResetPulse ==
  (pc = "wui" /\ ret = "df_swreset" /\ reset_pin_ # nullptr) =>
    /\ RstLevels(ev) = <<1, 0, 1>>
    /\ \A i \in RstAt(ev) : Hold(ev, i) = 10
    /\ BusAt(ev) = {}
    /\ CallAt(ev, BusyRead) = {}

(***************************************************************************)
(* C14: The opcodes on the bus are at every moment a prefix of the         *)
(* one-time configuration followed, for each update() started, by 0x12,    *)
(* 0x01, 0x11, 0x44, 0x45, 0x4E, 0x4F, 0x24, 0x4E, 0x4F, 0x26, 0x22, 0x20, *)
(* and the whole of it when update() returns; in each update the counters  *)
(* 0x4E [0x00] and 0x4F [0x00, 0x00] come immediately before 0x24 and      *)
(* before 0x26, each plane command carries 4736 payload bytes and 0x22     *)
(* carries 0xF7; and 0x20 is issued once per update, by the step that      *)
(* follows the return of wait_until_idle_, when the last command on the    *)
(* bus is 0x26 with its 4736 bytes.                                        *)
(***************************************************************************)
ConfigOps == <<18, 1, 17, 68, 69, 60, 24, 78, 79>>

RECURSIVE Repeat(_, _)
Repeat(q, n) == IF n = 0 THEN <<>> ELSE q \o Repeat(q, n - 1)

IsPrefix(a, b) == Len(a) <= Len(b) /\ a = SubSeq(b, 1, Len(a))

(* the payload lengths of the thirteen commands of one phase; the payload  *)
(* where the claim fixes it                                                *)
PhaseLens == <<0, 3, 1, 2, 4, 1, 2, 4736, 1, 2, 4736, 1, 0>>

WaitReturnCalls ==
  {<<Delay(100)>>, <<BusyRead, ReadMillis>>, <<BusyRead, ReadMillis, Delay(10)>>}

C14_Order ==
  pc # "constructed" =>
    LET o == Ops(trace)
    IN /\ IsPrefix(o, ConfigOps \o Repeat(PhaseOps, nUpdates))
       /\ Returned =>
            LET p == Pairs(trace)
            IN /\ o = ConfigOps \o Repeat(PhaseOps, nUpdates)
               /\ \A u \in 1..nUpdates : \A k \in 1..Len(PhaseOps) :
                    LET q == p[Len(ConfigOps) + (u - 1) * Len(PhaseOps) + k]
                    IN /\ q.op = PhaseOps[k]
                       /\ Len(q.payload) = PhaseLens[k]
                       /\ q.op = 78 => q.payload = <<0>>
                       /\ q.op = 79 => q.payload = <<0, 0>>
                       /\ q.op = 34 => q.payload = <<247>>

C14_ActivateStep ==
  CmdCount(trace', 32) # CmdCount(trace, 32) =>
    /\ CmdCount(trace', 32) = CmdCount(trace, 32) + 1
    /\ CmdCount(trace', 32) = nUpdates
    /\ pc = "full_update"
    /\ ev \in WaitReturnCalls
    /\ trace[Len(trace)].k = "data" /\ trace[Len(trace)].n = 4736
    /\ trace[Len(trace) - 1].k = "cmd" /\ trace[Len(trace) - 1].v = <<38>>

C14_PhaseOrder ==
  /\ [] C14_Order
  /\ [][C14_ActivateStep]_vars

C14_Witness ==
  /\ pc = "fu_wait"
  /\ nUpdates = 2
  /\ CmdCount(trace, 32) = 2
  /\ CmdCount(trace, 38) = 2

(***************************************************************************)
(* C15: For every activate-update command 0x20 on the bus, the border      *)
(* waveform 0x3C [0x05] and the temperature sensor selection 0x18 [0x80]   *)
(* have been sent after the last chip reset before it, a chip reset being  *)
(* a low level on the reset line or the software reset 0x12.               *)
(***************************************************************************)
IsChipReset(e) == (e.k = "rst" /\ e.v = <<0>>) \/ (e.k = "cmd" /\ e.v = <<18>>)

ChipResetsBefore(t, j) == {i \in 1..(j - 1) : IsChipReset(t[i])}

SentBetween(t, i, j, op, payload) ==
  \E k \in (i + 1)..(j - 2) :
    /\ t[k].k = "cmd" /\ t[k].v = <<op>>
    /\ t[k + 1].k = "data" /\ t[k + 1].v = payload /\ t[k + 1].n = 1

C15_ConfigInForce ==
  \A j \in CmdAt(trace, 32) :
    \A i \in ChipResetsBefore(trace, j) :
      (\A h \in ChipResetsBefore(trace, j) : h <= i) =>
        /\ SentBetween(trace, i, j, 60, <<5>>)
        /\ SentBetween(trace, i, j, 24, <<128>>)

(***************************************************************************)
(* C16: Transport framing.  The bus is disabled when the driver is         *)
(* constructed.  Every call the driver makes in setup() and update(),      *)
(* started with the bus disabled and the selector line at either level,    *)
(* - writes a byte to the bus only while the bus is enabled, with the      *)
(*   selector low for the opcode byte of command_ and high for the         *)
(*   payload bytes of data_ and send_data_,                                *)
(* - writes the selector line only while the bus is disabled,              *)
(* - enables the bus only when it is disabled and disables it only when    *)
(*   it is enabled,                                                        *)
(* - sleeps and reads the busy line only while the bus is disabled,        *)
(* and ends with the bus disabled; so the bus is disabled before every     *)
(* call and when setup() and update() return.                              *)
(***************************************************************************)
(* the level the selector line must have during the transfers of call c *)
SelectorFor(c) == IF c[1] = "command_" THEN 0 ELSE 1

(* the bus after the operation o, from the bus b = [en, dc, ok] *)
BusStep(b, o, sel) ==
  IF o = Enable THEN [en |-> TRUE, dc |-> b.dc, ok |-> b.ok /\ ~b.en]
  ELSE IF o = Disable THEN [en |-> FALSE, dc |-> b.dc, ok |-> b.ok /\ b.en]
  ELSE IF o[1] = "dc_pin_.digital_write" THEN [en |-> b.en, dc |-> o[2], ok |-> b.ok /\ ~b.en]
  ELSE IF o[1] \in {"write_byte", "write_array"}
  THEN [en |-> b.en, dc |-> b.dc, ok |-> b.ok /\ b.en /\ b.dc = sel]
  ELSE [en |-> b.en, dc |-> b.dc, ok |-> b.ok /\ ~b.en]

BusAfter(ops, sel, b0) ==
  LET f[i \in 0..Len(ops)] == IF i = 0 THEN b0 ELSE BusStep(f[i - 1], ops[i], sel)
  IN f[Len(ops)]

Framed(c) ==
  \A dc0 \in {0, 1} :
    LET b == BusAfter(Body(c), SelectorFor(c), [en |-> FALSE, dc |-> dc0, ok |-> TRUE])
    IN b.ok /\ ~b.en

C16_Framing ==
  \A c \in {ev[i] : i \in 1..Len(ev)} : Framed(c)

C16_Witness ==
  /\ pc = "df_secondary"
  /\ Len(ev) = ALLSCREEN_BYTES
  /\ ev[2] = Data(0)
  /\ CmdCount(trace, 36) = 2

(***************************************************************************)
(* C17: With a reset line, every command and payload transfer on the bus   *)
(* comes after a write to the reset line, and the last level written       *)
(* before it is high; and in every step each low level written to the      *)
(* reset line is followed, with no bus transfer in between, by a high      *)
(* level that is held at least 10 ms before the next bus transfer or the   *)
(* end of the step.                                                        *)
(***************************************************************************)
RstBefore(t, j) == {i \in 1..(j - 1) : t[i].k = "rst"}

C17_ReleasedOnTransfer ==
  reset_pin_ # nullptr =>
    /\ \A j \in 1..Len(trace) :
         trace[j].k \in {"cmd", "data"} =>
           /\ RstBefore(trace, j) # {}
           /\ \A i \in RstBefore(trace, j) :
                (\A h \in RstBefore(trace, j) : h <= i) => trace[i].v = <<1>>
    /\ \A i \in RstAt(ev) :
         ev[i][2] = 0 =>
           \E j \in RstAt(ev) :
             /\ j > i
             /\ ev[j][2] = 1
             /\ \A k \in BusAt(ev) \cup RstAt(ev) : ~(i < k /\ k < j)
             /\ Hold(ev, j) >= 10

C17_Witness ==
  /\ reset_pin_ # nullptr
  /\ pc = "wui"
  /\ ret = "df_config"
  /\ nUpdates = 2
  /\ ev = <<Cmd(18), Delay(10)>>

(***************************************************************************)
(* C18: The frame buffer is changed only by setup() and by a draw call of  *)
(* the drawing code: no step of the one-time configuration or of the       *)
(* write-and-refresh phase changes it.  So when update() returns the       *)
(* primary-plane data just sent is still the complement of the buffer,     *)
(* byte for byte, and when the update that returns has drawn nothing its   *)
(* primary-plane data is identical to that of the update before it.        *)
(***************************************************************************)
C18_BufferStep ==
  buffer_' # buffer_ =>
    \/ pc = "constructed"
    \/ /\ pc = "do_update"
       /\ pc' = "do_update"
       /\ Len(ev') = 1
       /\ ev'[1][1] = "draw_absolute_pixel_internal"

C18_SameData ==
  Returned =>
    LET pl == PlanePairs(trace)
    IN /\ \A i \in 1..ALLSCREEN_BYTES :
            pl[Len(pl) - 1].payload[i] = 255 - buffer_[i - 1]
       /\ (nUpdates >= 2 /\ draws = 0) =>
            pl[Len(pl) - 1].payload = pl[Len(pl) - 3].payload

C18_BufferUntouched ==
  /\ [][C18_BufferStep]_vars
  /\ [] C18_SameData

C18_Witness ==
  /\ Returned
  /\ nUpdates = 2
  /\ draws = 0
  /\ buffer_[1] = 127
  /\ buffer_[2] = 255

(***************************************************************************)
(* C19: In each of the three polling loops (wait_until_idle_, the wait     *)
(* after the software reset in init_display_, the wait after the refresh   *)
(* in full_update_) every iteration begins with the one read of the busy   *)
(* line it makes, and an iteration that repeats the loop (the line read    *)
(* busy, no timeout) makes after that read exactly one sleep, of nonzero   *)
(* length, and then exactly one watchdog feed: so between two consecutive  *)
(* reads of the line inside a loop there is one sleep and one feed.        *)
(***************************************************************************)
PollLoops == {"wui_loop", "init_wait", "fu_wait"}

C19_PollStep ==
  (pc \in PollLoops /\ busy_pin_ # nullptr /\ pc' \in PollLoops \cup WaitReturns \cup {"init_config", "idle"}) =>
    /\ ev' # <<>>
    /\ ev'[1] = BusyRead
    /\ Cardinality(CallAt(ev', BusyRead)) = 1
    /\ pc' = pc =>
         /\ Cardinality(DelayAt(ev')) = 1
         /\ Cardinality(CallAt(ev', FeedWdt)) = 1
         /\ \A i \in DelayAt(ev') : ev'[i][2] > 0 /\ \A j \in CallAt(ev', FeedWdt) : 1 < i /\ i < j

C19_WatchdogFed == [][C19_PollStep]_vars

C19_Witness ==
  /\ pc = "fu_wait"
  /\ ev = <<BusyRead, ReadMillis, Delay(100), FeedWdt>>
  /\ Gt32(Elapsed(millis, start), 1000)

(***************************************************************************)
(* C20: With no busy line, the driver sleeps a nonzero time at each point  *)
(* where it would wait on the line: in init_display_ after the software    *)
(* reset 0x12 and before the next command; in every wait_until_idle_       *)
(* (after the software reset and after the RAM write of display_frame_);   *)
(* and in full_update_ after the activate-update command 0x20 and before   *)
(* update() returns.                                                       *)
(***************************************************************************)
(* some call after the command with opcode op in calls is a nonzero sleep *)
SleepsAfter(calls, op) ==
  \E i \in CallAt(calls, Cmd(op)) : \E j \in DelayAt(calls) : i < j /\ calls[j][2] > 0

Sleeps(calls) == \E j \in DelayAt(calls) : calls[j][2] > 0

C20_DelayStep ==
  busy_pin_ = nullptr =>
    /\ (pc = "init_display" /\ pc' = "init_wait") => SleepsAfter(ev', 18)
    /\ (pc = "wui" /\ pc' \in WaitReturns) => Sleeps(ev')
    /\ (pc = "fu_wait" /\ pc' = "idle") => (SleepsAfter(ev, 32) \/ Sleeps(ev'))

C20_FixedDelays == [][C20_DelayStep]_vars

====
